---------------------------- MODULE Spec2Model ----------------------------
(***************************************************************************)
(* A model of density_sorting.py: main() opens testdata.txt, discards the  *)
(* first line, builds one Design per body line of exactly seven            *)
(* whitespace-separated tokens, appends it to Library.designs, closes the  *)
(* file and prints the designs sorted by density, highest first.           *)
(*                                                                         *)
(* Text is a sequence of one-character strings.  A float is modelled by    *)
(* its value: a rational n/d in lowest terms, or one of the IEEE specials  *)
(* nan, +inf, -inf.  Every finite value the inputs below produce is exact  *)
(* in binary64, so rational arithmetic is what the program computes on     *)
(* them.  The sign of a zero is not modelled (-0.0 == 0.0 in Python).      *)
(***************************************************************************)
EXTENDS Integers, Sequences, FiniteSets, Bags, TLC

(***************************************************************************)
(* Bounds of the model.                                                    *)
(***************************************************************************)
\* the largest number of lines after the first, of any kind
MaxBody == 2
\* the largest number of lines after the first when each yields a Design
MaxRecords == 3

(***************************************************************************)
(* Program constants.                                                      *)
(***************************************************************************)
\* len(parts) != 7
RequiredTokens == 7
\* area_um2 / 1_000_000.0
UM2_PER_MM2 == 1000000

(***************************************************************************)
(* Text: str.strip() and str.split() with no separator.                    *)
(***************************************************************************)
Whitespace == {" ", "\t", "\n"}

RECURSIVE LStrip(_)
LStrip(s) ==
    IF s # <<>> /\ Head(s) \in Whitespace THEN LStrip(Tail(s)) ELSE s

RECURSIVE RStrip(_)
RStrip(s) ==
    IF s # <<>> /\ s[Len(s)] \in Whitespace
    THEN RStrip(SubSeq(s, 1, Len(s) - 1))
    ELSE s

Strip(s) == RStrip(LStrip(s))

\* split(): runs of whitespace separate the tokens, empty tokens are dropped
RECURSIVE SplitWs(_, _, _)
SplitWs(s, cur, acc) ==
    IF s = <<>>
    THEN IF cur = <<>> THEN acc ELSE Append(acc, cur)
    ELSE IF Head(s) \in Whitespace
         THEN SplitWs(Tail(s), <<>>, IF cur = <<>> THEN acc ELSE Append(acc, cur))
         ELSE SplitWs(Tail(s), Append(cur, Head(s)), acc)

\* parts = line.strip().split()
Parts(line) == SplitWs(Strip(line), <<>>, <<>>)

(***************************************************************************)
(* Float values.                                                           *)
(***************************************************************************)
Abs(n) == IF n < 0 THEN -n ELSE n

RECURSIVE GCD(_, _)
GCD(a, b) == IF b = 0 THEN a ELSE GCD(b, a % b)

\* the rational n/d (d # 0) in lowest terms with a positive denominator
Fin(n, d) ==
    LET g == GCD(Abs(n), Abs(d))
        s == IF d < 0 THEN -1 ELSE 1
    IN  [k |-> "fin", n |-> (s * n) \div g, d |-> (s * d) \div g]

FNaN == [k |-> "nan", n |-> 0, d |-> 1]
\* sign is 1 or -1
FInf(sign) == [k |-> "inf", n |-> sign, d |-> 1]
FZero == Fin(0, 1)

Sign(n) == IF n < 0 THEN -1 ELSE IF n > 0 THEN 1 ELSE 0

\* a - b
FSub(a, b) ==
    IF a.k = "nan" \/ b.k = "nan" THEN FNaN
    ELSE IF a.k = "inf" /\ b.k = "inf"
         THEN IF a.n = b.n THEN FNaN ELSE a
    ELSE IF a.k = "inf" THEN a
    ELSE IF b.k = "inf" THEN FInf(-b.n)
    ELSE Fin(a.n * b.d - b.n * a.d, a.d * b.d)

\* a * b
FMul(a, b) ==
    IF a.k = "nan" \/ b.k = "nan" THEN FNaN
    ELSE IF a.k = "inf" \/ b.k = "inf"
         THEN IF Sign(a.n) * Sign(b.n) = 0 THEN FNaN
              ELSE FInf(Sign(a.n) * Sign(b.n))
    ELSE Fin(a.n * b.n, a.d * b.d)

\* a == 0
FIsZero(a) == a.k = "fin" /\ a.n = 0

\* the outcome of a division by zero: Python raises ZeroDivisionError
FZeroDiv == [k |-> "zerodiv", n |-> 0, d |-> 1]

\* a / b
FDiv(a, b) ==
    IF FIsZero(b) THEN FZeroDiv
    ELSE IF a.k = "nan" \/ b.k = "nan" THEN FNaN
    ELSE IF a.k = "inf"
         THEN IF b.k = "inf" THEN FNaN
              ELSE FInf(a.n * Sign(b.n))
    ELSE IF b.k = "inf" THEN FZero
    ELSE Fin(a.n * b.d, a.d * b.n)

\* a < b: every comparison with nan is false
FLt(a, b) ==
    IF a.k = "nan" \/ b.k = "nan" THEN FALSE
    ELSE IF a.k = "inf" THEN a.n = -1 /\ ~(b.k = "inf" /\ b.n = -1)
    ELSE IF b.k = "inf" THEN b.n = 1
    ELSE a.n * b.d < b.n * a.d

(***************************************************************************)
(* float(str) and int(str) on the inputs' alphabet: an optional sign, then *)
(* digits, for float also a decimal point, "nan" and "inf".  (The exponent *)
(* form, underscores and upper case are not among the inputs.)             *)
(***************************************************************************)
DigitVal ==
    [c \in {"0", "1", "2", "3", "4", "5", "6", "7", "8", "9"} |->
        CASE c = "0" -> 0 [] c = "1" -> 1 [] c = "2" -> 2 [] c = "3" -> 3
          [] c = "4" -> 4 [] c = "5" -> 5 [] c = "6" -> 6 [] c = "7" -> 7
          [] c = "8" -> 8 [] c = "9" -> 9]

AllDigits(s) == \A i \in 1..Len(s) : s[i] \in DOMAIN DigitVal

RECURSIVE DigitsValue(_)
DigitsValue(s) ==
    IF s = <<>> THEN 0
    ELSE 10 * DigitsValue(SubSeq(s, 1, Len(s) - 1)) + DigitVal[s[Len(s)]]

RECURSIVE Pow10(_)
Pow10(n) == IF n = 0 THEN 1 ELSE 10 * Pow10(n - 1)

HasSign(s) == s # <<>> /\ Head(s) \in {"+", "-"}
Unsigned(s) == IF HasSign(s) THEN Tail(s) ELSE s
SignOf(s) == IF s # <<>> /\ Head(s) = "-" THEN -1 ELSE 1

\* int(s): the value, or ValueError
ParseInt(s) ==
    LET u == Unsigned(s)
    IN  IF u # <<>> /\ AllDigits(u)
        THEN [ok |-> TRUE, v |-> SignOf(s) * DigitsValue(u)]
        ELSE [ok |-> FALSE, v |-> 0]

\* the index of the first "." of s, 0 when there is none
DotIndex(s) ==
    IF \E i \in 1..Len(s) : s[i] = "."
    THEN CHOOSE i \in 1..Len(s) : s[i] = "." /\ \A j \in 1..(i - 1) : s[j] # "."
    ELSE 0

\* float(s): the value, or ValueError
ParseFloat(s) ==
    LET u == Unsigned(s)
        dot == DotIndex(u)
        ip == IF dot = 0 THEN u ELSE SubSeq(u, 1, dot - 1)
        fp == IF dot = 0 THEN <<>> ELSE SubSeq(u, dot + 1, Len(u))
    IN  IF u = <<"n", "a", "n">> THEN [ok |-> TRUE, v |-> FNaN]
        ELSE IF u = <<"i", "n", "f">> THEN [ok |-> TRUE, v |-> FInf(SignOf(s))]
        ELSE IF AllDigits(ip) /\ AllDigits(fp) /\ Len(ip) + Len(fp) > 0
             THEN [ok |-> TRUE,
                   v |-> Fin(SignOf(s) * (DigitsValue(ip) * Pow10(Len(fp)) + DigitsValue(fp)),
                             Pow10(Len(fp)))]
        ELSE [ok |-> FALSE, v |-> FNaN]

(***************************************************************************)
(* class Design.                                                           *)
(***************************************************************************)
\* _compute_area_mm2: area_um2 = (ux - lx) * (uy - ly); area_um2 / 1_000_000.0
ComputeAreaMm2(lx, ly, ux, uy) ==
    FDiv(FMul(FSub(ux, lx), FSub(uy, ly)), Fin(UM2_PER_MM2, 1))

\* _compute_density without its guard on a zero area
ComputeDensityUnguarded(poly_count, area_mm2) ==
    FDiv(Fin(poly_count, 1), area_mm2)

\* _compute_density: 0.0 when area_mm2 == 0, else poly_count / area_mm2
ComputeDensity(poly_count, area_mm2) ==
    IF FIsZero(area_mm2) THEN FZero
    ELSE FDiv(Fin(poly_count, 1), area_mm2)

NoDesign ==
    [name |-> <<>>, lx |-> FZero, ly |-> FZero, ux |-> FZero, uy |-> FZero,
     poly_count |-> 0, md5sum |-> <<>>, area_mm2 |-> FZero, density |-> FZero]

\* Design(name, lx, ly, ux, uy, poly_count, md5sum) on seven strings: the new
\* object, or the exception the constructor raises
NewDesign(name, lx, ly, ux, uy, poly_count, md5sum) ==
    LET flx == ParseFloat(lx)
        fly == ParseFloat(ly)
        fux == ParseFloat(ux)
        fuy == ParseFloat(uy)
        ipc == ParseInt(poly_count)
    IN  IF ~(flx.ok /\ fly.ok /\ fux.ok /\ fuy.ok /\ ipc.ok)
        THEN [raised |-> "ValueError", d |-> NoDesign]
        ELSE LET area == ComputeAreaMm2(flx.v, fly.v, fux.v, fuy.v)
                 dens == ComputeDensity(ipc.v, area)
             IN  IF dens = FZeroDiv
                 THEN [raised |-> "ZeroDivisionError", d |-> NoDesign]
                 ELSE [raised |-> "none",
                       d |-> [name |-> name, lx |-> flx.v, ly |-> fly.v,
                              ux |-> fux.v, uy |-> fuy.v, poly_count |-> ipc.v,
                              md5sum |-> md5sum, area_mm2 |-> area,
                              density |-> dens]]

(***************************************************************************)
(* class Library.                                                          *)
(***************************************************************************)
\* add_design with the new element put first
AddDesignFront(designs, design) == <<design>> \o designs

\* add_design: self.designs.append(design)
AddDesign(designs, design) == Append(designs, design)

Reverse(s) == [i \in 1..Len(s) |-> s[Len(s) + 1 - i]]

\* the comparison list.sort makes on the keys: key(a) < key(b)
KeyLt(a, b) == FLt(a.density, b.density)

\* count_run: the run goes on while the next pair is ordered like the first
RECURSIVE RunEnd(_, _, _)
RunEnd(s, k, desc) ==
    IF k = Len(s) THEN k
    ELSE IF KeyLt(s[k + 1], s[k]) = desc THEN RunEnd(s, k + 1, desc) ELSE k

\* count_run: the length of the run that starts the list, and whether it is
\* strictly descending
CountRun(s) ==
    IF Len(s) <= 1 THEN [n |-> Len(s), desc |-> FALSE]
    ELSE LET desc == KeyLt(s[2], s[1])
         IN  [n |-> RunEnd(s, 2, desc), desc |-> desc]

\* binarysort's search for the place of pivot in s[l .. r-1]
RECURSIVE BinaryPos(_, _, _, _)
BinaryPos(s, pivot, l, r) ==
    IF l >= r THEN l
    ELSE LET p == l + ((r - l) \div 2)
         IN  IF KeyLt(pivot, s[p])
             THEN BinaryPos(s, pivot, l, p)
             ELSE BinaryPos(s, pivot, p + 1, r)

\* the insertion with the slot overwritten instead of the tail shifted
InsertAtNoShift(s, start) ==
    [s EXCEPT ![BinaryPos(s, s[start], 1, start)] = s[start]]

\* binarysort's insertion of s[start] into the sorted s[1 .. start-1]
InsertAt(s, start) ==
    LET pos == BinaryPos(s, s[start], 1, start)
    IN  SubSeq(s, 1, pos - 1) \o <<s[start]>> \o SubSeq(s, pos, start - 1)
            \o SubSeq(s, start + 1, Len(s))

RECURSIVE BinarySort(_, _)
BinarySort(s, start) ==
    IF start > Len(s) THEN s ELSE BinarySort(InsertAt(s, start), start + 1)

\* list.sort on fewer than 64 elements, ascending: the first run (reversed
\* when descending), then binary insertion of the rest
ListSort(s) ==
    LET run == CountRun(s)
        s1 == IF run.desc
              THEN Reverse(SubSeq(s, 1, run.n)) \o SubSeq(s, run.n + 1, Len(s))
              ELSE s
    IN  BinarySort(s1, run.n + 1)

\* an ascending sort turned round once
SortedByDensityUnstable(designs) == Reverse(ListSort(designs))

\* sorted(self.designs, key=lambda d: d.density, reverse=True): the list is
\* reversed, sorted ascending, and reversed again
SortedByDensity(designs) == Reverse(ListSort(Reverse(designs)))

(***************************************************************************)
(* The text print_by_density writes.                                       *)
(***************************************************************************)
DigitChar == <<"0", "1", "2", "3", "4", "5", "6", "7", "8", "9">>

\* the decimal digits of n >= 0
RECURSIVE IntDigits(_)
IntDigits(n) ==
    IF n < 10 THEN <<DigitChar[n + 1]>>
    ELSE Append(IntDigits(n \div 10), DigitChar[(n % 10) + 1])

RECURSIVE Spaces(_)
Spaces(n) == IF n <= 0 THEN <<>> ELSE <<" ">> \o Spaces(n - 1)

\* a minimum width, the text to the left ({:10s}) or to the right ({:6d})
PadRight(s, w) == s \o Spaces(w - Len(s))
PadLeft(s, w) == Spaces(w - Len(s)) \o s

\* n/d (n >= 0, d > 0) rounded to an integer, ties to even
RoundHalfEven(n, d) ==
    LET q == n \div d
        r == n % d
    IN  IF 2 * r > d \/ (2 * r = d /\ q % 2 = 1) THEN q + 1 ELSE q

\* {:d}
FormatInt(n) == IF n < 0 THEN <<"-">> \o IntDigits(-n) ELSE IntDigits(n)

\* {:.<prec>f}
FormatFixed(v, prec) ==
    IF v.k = "nan" THEN <<"n", "a", "n">>
    ELSE IF v.k = "inf"
         THEN (IF v.n < 0 THEN <<"-">> ELSE <<>>) \o <<"i", "n", "f">>
    ELSE LET scaled == RoundHalfEven(Abs(v.n) * Pow10(prec), v.d)
             frac == IntDigits(scaled % Pow10(prec))
         IN  (IF v.n < 0 THEN <<"-">> ELSE <<>>)
                 \o IntDigits(scaled \div Pow10(prec)) \o <<".">>
                 \o [i \in 1..(prec - Len(frac)) |-> "0"] \o frac

\* print(...) of line 102: "Designs sorted by density (high → low):"
HeaderText ==
    <<"D", "e", "s", "i", "g", "n", "s", " ", "s", "o", "r", "t", "e", "d",
      " ", "b", "y", " ", "d", "e", "n", "s", "i", "t", "y", " ", "(", "h",
      "i", "g", "h", " ", "→", " ", "l", "o", "w", ")", ":">>

\* the literal text of the f-string: " density="
DensityLabel ==
    <<" ", "d", "e", "n", "s", "i", "t", "y", "=">>

\* the literal text of the f-string: " poly/mm²   area="
AreaLabel ==
    <<" ", "p", "o", "l", "y", "/", "m", "m", "²", " ", " ", " ", "a", "r",
      "e", "a", "=">>

\* the literal text of the f-string: " mm²   polys="
PolysLabel ==
    <<" ", "m", "m", "²", " ", " ", " ", "p", "o", "l", "y", "s", "=">>

\* the f-string of lines 105-106
FormatLine(d) ==
    PadRight(d.name, 10) \o DensityLabel \o PadLeft(FormatFixed(d.density, 6), 10)
        \o AreaLabel \o PadLeft(FormatFixed(d.area_mm2, 2), 12)
        \o PolysLabel \o PadLeft(FormatInt(d.poly_count), 6)

\* print_by_density with the collection itself sorted (self.designs.sort)
PrintByDensityInPlace(designs) ==
    LET sorted_designs == SortedByDensity(designs)
    IN  [designs |-> sorted_designs,
         sorted_designs |-> sorted_designs,
         printed |-> <<HeaderText>>
                        \o [i \in 1..Len(sorted_designs) |-> FormatLine(sorted_designs[i])]]

\* print_by_density: the collection afterwards, the sorted copy, the lines printed
PrintByDensity(designs) ==
    LET sorted_designs == SortedByDensity(designs)
    IN  [designs |-> designs,
         sorted_designs |-> sorted_designs,
         printed |-> <<HeaderText>>
                        \o [i \in 1..Len(sorted_designs) |-> FormatLine(sorted_designs[i])]]

(***************************************************************************)
(* The input files of the model: no line at all; a first line out of       *)
(* FirstLines, then up to MaxBody lines out of BodyLines; the column       *)
(* names, then up to MaxRecords lines out of RecordLines.                  *)
(***************************************************************************)
\* the column names: "name lx ly ux uy poly_count md5sum\n"
HeaderColumns ==
    <<"n", "a", "m", "e", " ", "l", "x", " ", "l", "y", " ", "u", "x", " ",
      "u", "y", " ", "p", "o", "l", "y", "_", "c", "o", "u", "n", "t", " ",
      "m", "d", "5", "s", "u", "m", "\n">>

\* seven well-formed tokens: "h 0 0 1000 1000 900 e\n"
HeaderLikeData ==
    <<"h", " ", "0", " ", "0", " ", "1", "0", "0", "0", " ", "1", "0", "0",
      "0", " ", "9", "0", "0", " ", "e", "\n">>

\* an empty first line: "\n"
HeaderBlank ==
    <<"\n">>

\* area 1.0, density 500: "a 0 0 1000 1000 500 abc\n"
LineA ==
    <<"a", " ", "0", " ", "0", " ", "1", "0", "0", "0", " ", "1", "0", "0",
      "0", " ", "5", "0", "0", " ", "a", "b", "c", "\n">>

\* area 1.0, density 200: "b 0 0 2000 500 200 def\n"
LineB ==
    <<"b", " ", "0", " ", "0", " ", "2", "0", "0", "0", " ", "5", "0", "0",
      " ", "2", "0", "0", " ", "d", "e", "f", "\n">>

\* density 500 again, other separators: " c\t0 0 1000  1000 500 abc \n"
LineC ==
    <<" ", "c", "\t", "0", " ", "0", " ", "1", "0", "0", "0", " ", " ",
      "1", "0", "0", "0", " ", "5", "0", "0", " ", "a", "b", "c", " ",
      "\n">>

\* area 0.5, density 200: "q 0.5 0 500.5 1000 100 e\n"
LineQ ==
    <<"q", " ", "0", ".", "5", " ", "0", " ", "5", "0", "0", ".", "5", " ",
      "1", "0", "0", "0", " ", "1", "0", "0", " ", "e", "\n">>

\* area 0, density 0.0: "z 0 0 0 0 10 e\n"
LineZ ==
    <<"z", " ", "0", " ", "0", " ", "0", " ", "0", " ", "1", "0", " ", "e",
      "\n">>

\* ux < lx: area -1.0, density -500: "i 1000 0 0 1000 500 e\n"
LineI ==
    <<"i", " ", "1", "0", "0", "0", " ", "0", " ", "0", " ", "1", "0", "0",
      "0", " ", "5", "0", "0", " ", "e", "\n">>

\* ux < lx and uy < ly: area 1.0, density 500: "d 1000 1000 0 0 500 e\n"
LineD ==
    <<"d", " ", "1", "0", "0", "0", " ", "1", "0", "0", "0", " ", "0", " ",
      "0", " ", "5", "0", "0", " ", "e", "\n">>

\* area nan, density nan: "n 0 0 nan 1000 5 e\n"
LineN ==
    <<"n", " ", "0", " ", "0", " ", "n", "a", "n", " ", "1", "0", "0", "0",
      " ", "5", " ", "e", "\n">>

\* area inf, density 0.0: "f 0 0 inf 1000 5 e\n"
LineF ==
    <<"f", " ", "0", " ", "0", " ", "i", "n", "f", " ", "1", "0", "0", "0",
      " ", "5", " ", "e", "\n">>

\* float("ten") raises ValueError: "x 0 0 ten 1000 5 e\n"
LineX ==
    <<"x", " ", "0", " ", "0", " ", "t", "e", "n", " ", "1", "0", "0", "0",
      " ", "5", " ", "e", "\n">>

\* int("1.5") raises ValueError: "p 0 0 1000 1000 1.5 e\n"
LineP ==
    <<"p", " ", "0", " ", "0", " ", "1", "0", "0", "0", " ", "1", "0", "0",
      "0", " ", "1", ".", "5", " ", "e", "\n">>

\* three tokens: "s 0 0\n"
LineShort ==
    <<"s", " ", "0", " ", "0", "\n">>

\* no token: " \n"
LineBlank ==
    <<" ", "\n">>

\* eight tokens: "l 0 0 1000 1000 500 e 9\n"
LineLong ==
    <<"l", " ", "0", " ", "0", " ", "1", "0", "0", "0", " ", "1", "0", "0",
      "0", " ", "5", "0", "0", " ", "e", " ", "9", "\n">>

FirstLines == {HeaderColumns, HeaderLikeData, HeaderBlank}

BodyLines ==
    {LineA, LineB, LineC, LineQ, LineZ, LineI, LineD,
     LineN, LineF, LineX, LineP, LineShort, LineBlank, LineLong}

RECURSIVE SeqsUpTo(_, _)
SeqsUpTo(S, n) ==
    IF n = 0 THEN {<<>>}
    ELSE LET shorter == SeqsUpTo(S, n - 1)
         IN  shorter \cup {Append(q, x) : q \in shorter, x \in S}

\* the lines that yield a Design
RecordLines == {LineA, LineB, LineC, LineZ, LineI, LineD, LineN}

Files ==
    {<<>>}
        \cup {<<h>> \o b : h \in FirstLines, b \in SeqsUpTo(BodyLines, MaxBody)}
        \cup {<<HeaderColumns>> \o b : b \in SeqsUpTo(RecordLines, MaxRecords)}

(***************************************************************************)
(* main().                                                                 *)
(***************************************************************************)
VARIABLES
    exists,          \* whether testdata.txt can be opened
    file,            \* the lines of testdata.txt
    pos,             \* how many lines have been read from the open file
    fileOpen,        \* whether the file object is open
    designs,         \* library.designs
    sorted_designs,  \* the list sorted() returned in print_by_density
    output,          \* the lines printed to standard output
    raised,          \* the exception leaving main(), "none" when there is none
    pc               \* where main() is

vars == <<exists, file, pos, fileOpen, designs, sorted_designs, output, raised, pc>>

Init ==
    /\ exists \in BOOLEAN
    /\ file \in (IF exists THEN Files ELSE {<<>>})
    /\ pos = 0
    /\ fileOpen = FALSE
    /\ designs = <<>>
    /\ sorted_designs = <<>>
    /\ output = <<>>
    /\ raised = "none"
    /\ pc = "open"

\* open(filename, "r"): the file object, or FileNotFoundError out of main()
Open ==
    /\ pc = "open"
    /\ IF exists
       THEN /\ fileOpen' = TRUE
            /\ pc' = "header"
            /\ raised' = raised
       ELSE /\ fileOpen' = FALSE
            /\ pc' = "error"
            /\ raised' = "FileNotFoundError"
    /\ UNCHANGED <<exists, file, pos, designs, sorted_designs, output>>

\* a readline() that reads nothing
AfterReadlineNothing(p, f) == p

\* file.readline(): one line is consumed unless the file is at its end
AfterReadline(p, f) == IF p < Len(f) THEN p + 1 ELSE p

ReadHeader ==
    /\ pc = "header"
    /\ pos' = AfterReadline(pos, file)
    /\ pc' = "loop"
    /\ UNCHANGED <<exists, file, fileOpen, designs, sorted_designs, output, raised>>

\* a test that lets lines of more than seven tokens through
AcceptsAtLeast(parts) == Len(parts) >= RequiredTokens

\* not (len(parts) != 7)
Accepts(parts) == Len(parts) = RequiredTokens

\* Design(name, lx, ly, ux, uy, poly_count, md5sum) on the tokens of a line
Construct(parts) ==
    NewDesign(parts[1], parts[2], parts[3], parts[4], parts[5], parts[6], parts[7])

\* the loop body with the constructor's exception caught and the row skipped
LoopBodySwallow(ds, line) ==
    LET parts == Parts(line)
    IN  IF ~Accepts(parts) \/ Construct(parts).raised # "none"
        THEN [designs |-> ds, raised |-> "none"]
        ELSE [designs |-> AddDesign(ds, Construct(parts).d), raised |-> "none"]

\* the loop body on one line: the collection afterwards and the exception
\* that leaves the loop
LoopBody(ds, line) ==
    LET parts == Parts(line)
    IN  IF ~Accepts(parts)
        THEN [designs |-> ds, raised |-> "none"]
        ELSE LET r == Construct(parts)
             IN  IF r.raised # "none"
                 THEN [designs |-> ds, raised |-> r.raised]
                 ELSE [designs |-> AddDesign(ds, r.d), raised |-> "none"]

\* one iteration of `for line in file`
Iterate ==
    /\ pc = "loop"
    /\ pos < Len(file)
    /\ LET after == LoopBody(designs, file[pos + 1])
       IN  /\ designs' = after.designs
           /\ raised' = after.raised
           /\ pc' = IF after.raised # "none" THEN "unwind" ELSE "loop"
    /\ pos' = pos + 1
    /\ UNCHANGED <<exists, file, fileOpen, sorted_designs, output>>

\* `continue`: the line has not seven tokens
SkipLine ==
    /\ pc = "loop" /\ pos < Len(file)
    /\ ~Accepts(Parts(file[pos + 1]))
    /\ Iterate

\* library.add_design(Design(...))
AddLine ==
    /\ pc = "loop" /\ pos < Len(file)
    /\ Accepts(Parts(file[pos + 1]))
    /\ Construct(Parts(file[pos + 1])).raised = "none"
    /\ Iterate

\* Design(...) raises
RaiseLine ==
    /\ pc = "loop" /\ pos < Len(file)
    /\ Accepts(Parts(file[pos + 1]))
    /\ Construct(Parts(file[pos + 1])).raised # "none"
    /\ Iterate

\* the iterator is exhausted: the for statement ends
EndOfInput ==
    /\ pc = "loop"
    /\ pos = Len(file)
    /\ pc' = "exit"
    /\ UNCHANGED <<exists, file, pos, fileOpen, designs, sorted_designs, output, raised>>

\* a close() after the loop, which an exception skips
OpenAfterExitUnlessRaised(exc) == exc # "none"

\* whether the file is open after the with statement is left: __exit__
\* closes it with or without an exception
OpenAfterExit(exc) == FALSE

\* leaving the with block, normally or by an exception
ExitWith ==
    /\ pc \in {"exit", "unwind"}
    /\ fileOpen' = OpenAfterExit(raised)
    /\ pc' = IF raised # "none" THEN "error" ELSE "report"
    /\ UNCHANGED <<exists, file, pos, designs, sorted_designs, output, raised>>

\* library.print_by_density()
Report ==
    /\ pc = "report"
    /\ LET r == PrintByDensity(designs)
       IN  /\ designs' = r.designs
           /\ sorted_designs' = r.sorted_designs
           /\ output' = output \o r.printed
    /\ pc' = "done"
    /\ UNCHANGED <<exists, file, pos, fileOpen, raised>>

Next ==
    \/ Open
    \/ ReadHeader
    \/ SkipLine
    \/ AddLine
    \/ RaiseLine
    \/ EndOfInput
    \/ ExitWith
    \/ Report

Spec == Init /\ [][Next]_vars

(***************************************************************************)
(* Definitions the properties are stated with.                             *)
(***************************************************************************)
Range(s) == {s[i] : i \in 1..Len(s)}

\* how often each element occurs in s
Occurrences(s) == [x \in Range(s) |-> Cardinality({i \in 1..Len(s) : s[i] = x})]

\* the body line read last, when pc = "loop" and a line is left
NextLine == file[pos + 1]

\* the lines after the first that have been read
BodyRead == SubSeq(file, 2, pos)

\* the designs a sequence of lines stands for: one per line of seven tokens
\* whose numbers parse, in the order of the lines
RECURSIVE DesignsOf(_)
DesignsOf(lines) ==
    IF lines = <<>> THEN <<>>
    ELSE LET parts == Parts(Head(lines))
         IN  IF Len(parts) = 7 /\ Construct(parts).raised = "none"
             THEN <<Construct(parts).d>> \o DesignsOf(Tail(lines))
             ELSE DesignsOf(Tail(lines))

\* a == b on floats: nan equals nothing, itself included
FEq(a, b) == a.k # "nan" /\ b.k # "nan" /\ a = b

\* a >= b
FGe(a, b) == FLt(b, a) \/ FEq(a, b)

IsFinite(v) == v.k = "fin"
Negative(v) == FLt(v, FZero)
Positive(v) == FLt(FZero, v)

\* (ux - lx) * (uy - ly) / 1_000_000 on finite coordinates, as an equation
\* between integers; on the others, by the rules of IEEE arithmetic
AreaIsFormula(d) ==
    IF IsFinite(d.lx) /\ IsFinite(d.ly) /\ IsFinite(d.ux) /\ IsFinite(d.uy)
    THEN LET dxn == d.ux.n * d.lx.d - d.lx.n * d.ux.d
             dxd == d.ux.d * d.lx.d
             dyn == d.uy.n * d.ly.d - d.ly.n * d.uy.d
             dyd == d.uy.d * d.ly.d
         IN  /\ IsFinite(d.area_mm2)
             /\ d.area_mm2.n * 1000000 * dxd * dyd = d.area_mm2.d * dxn * dyn
    ELSE d.area_mm2 = FDiv(FMul(FSub(d.ux, d.lx), FSub(d.uy, d.ly)), Fin(1000000, 1))

\* poly_count / area_mm2, and 0.0 on a zero area
DensityIsFormula(d) ==
    IF FIsZero(d.area_mm2) THEN d.density = FZero
    ELSE IF IsFinite(d.area_mm2)
         THEN /\ IsFinite(d.density)
              /\ d.density.n * d.area_mm2.n = d.poly_count * d.area_mm2.d * d.density.d
         ELSE d.density = FDiv(Fin(d.poly_count, 1), d.area_mm2)

\* the next line has seven tokens, and a coordinate that float() rejects or a
\* polygon count that int() rejects
BadNumberNext ==
    /\ pc = "loop"
    /\ pos < Len(file)
    /\ Len(Parts(NextLine)) = 7
    /\ \/ \E i \in 2..5 : ~ParseFloat(Parts(NextLine)[i]).ok
       \/ ~ParseInt(Parts(NextLine)[6]).ok

InvertedX(d) == FLt(d.ux, d.lx)
InvertedY(d) == FLt(d.uy, d.ly)

(***************************************************************************)
(* The properties.                                                         *)
(***************************************************************************)

\* C1: the data lines print_by_density prints are in non-increasing density
\* order: density[i] >= density[i+1] for every adjacent pair of printed
\* records, whatever the collection.
C1_NonIncreasing ==
    pc = "done" =>
        /\ Len(output) = Len(sorted_designs) + 1
        /\ \A i \in 1..Len(sorted_designs) : output[i + 1] = FormatLine(sorted_designs[i])
        /\ \A i \in 1..(Len(sorted_designs) - 1) :
               FGe(sorted_designs[i].density, sorted_designs[i + 1].density)

\* C1, for the collections that hold no nan density: the order printed is
\* non-increasing.
C1_NonIncreasingWithoutNaN ==
    (pc = "done" /\ \A i \in 1..Len(designs) : designs[i].density.k # "nan") =>
        \A i \in 1..(Len(sorted_designs) - 1) :
            FGe(sorted_designs[i].density, sorted_designs[i + 1].density)

\* C2: a body line whose token count is not 7 (fewer, more, or none) yields
\* no Record and raises nothing, and leaves the program, but for the line
\* consumed, in the state it was in: what follows is processed as if the
\* line were absent.
C2_MalformedLineSkipped ==
    [][(pc = "loop" /\ pos < Len(file) /\ Len(Parts(NextLine)) # 7) =>
          /\ designs' = designs
          /\ raised' = "none"
          /\ pc' = "loop"
          /\ pos' = pos + 1
          /\ UNCHANGED <<exists, file, fileOpen, sorted_designs, output>>]_vars

\* a line of eight tokens, of three or of none has been skipped, and the
\* line after it has given a Record
C2_Witness ==
    /\ pc = "done"
    /\ Len(file) = 3
    /\ Len(Parts(file[2])) \in {0, 3, 8}
    /\ Len(designs) = 1
    /\ Len(output) = 2

C4_ReportIsPermutation ==
    pc = "done" =>
        /\ Len(output) = Len(designs) + 1
        /\ output[1] = HeaderText
        /\ Len(sorted_designs) = Len(designs)
        /\ Occurrences(sorted_designs) = Occurrences(designs)
        /\ \A i \in 1..Len(designs) : output[i + 1] = FormatLine(sorted_designs[i])

\* three records, one of them stored twice, printed in another order
C4_Witness ==
    /\ pc = "done"
    /\ Len(designs) = 3
    /\ Cardinality(Range(designs)) = 2
    /\ sorted_designs # designs

C6_ReportLeavesCollection ==
    [][pc = "report" => designs' = designs]_vars

\* the report has printed the records in another order than they are stored in
C6_Witness ==
    /\ pc = "done"
    /\ Len(designs) >= 2
    /\ sorted_designs # designs
    /\ designs = DesignsOf(Tail(file))

\* C7: the collection is append-only and keeps the order of the calls: it
\* holds, at any time, the records of the accepted lines read so far, in file
\* order, duplicates kept; a step changes it by one element added at the end.
C7_AppendOnly ==
    /\ [](designs = DesignsOf(BodyRead))
    /\ [][\/ designs' = designs
          \/ /\ Len(designs') = Len(designs) + 1
             /\ SubSeq(designs', 1, Len(designs)) = designs]_vars

\* two different records and a copy of the first have been added, in this order
C7_Witness ==
    /\ pc = "loop"
    /\ Len(designs) = 3
    /\ designs[1] # designs[2]
    /\ designs[3] = designs[1]

\* C8: the first line is consumed and never gives a Record nor an error,
\* whatever it holds; a file of one line, or of none, gives an empty
\* collection and a report of the header line alone.
C8_FirstLineDiscarded ==
    /\ pos <= 1 => (designs = <<>> /\ raised \in {"none", "FileNotFoundError"})
    /\ Len(designs) <= Len(file) - 1 \/ file = <<>>
    /\ (pc = "done" /\ Len(file) <= 1) => (designs = <<>> /\ output = <<HeaderText>>)

\* a file of one line of seven well-formed tokens has been reported
C8_Witness ==
    /\ pc = "done"
    /\ Len(file) = 1
    /\ Len(Parts(file[1])) = 7
    /\ Construct(Parts(file[1])).raised = "none"

\* C9: a body line of seven tokens of which a coordinate is no number, or
\* the polygon count no integer, makes the constructor raise: the row is not
\* skipped and adds nothing, no later line is read, and the run ends in an
\* error without a report.
C9_ParseFailurePropagates ==
    /\ [][/\ (BadNumberNext =>
                 (pc' = "unwind" /\ raised' = "ValueError" /\ designs' = designs))
           /\ (pc = "unwind" =>
                 (pc' = "error" /\ raised' = raised /\ pos' = pos
                    /\ designs' = designs /\ output' = <<>>))]_vars
    /\ [](pc \in {"unwind", "error"} => (output = <<>> /\ ~ENABLED Report))
    /\ [](pc = "error" => ~ENABLED Next)

\* the run has ended on a bad number with a line left unread
C9_Witness ==
    /\ pc = "error"
    /\ raised = "ValueError"
    /\ pos < Len(file)
    /\ output = <<>>

\* C10: the file is open only while the loader runs: it is closed when the
\* report is rendered and in every terminal state, after an error too.
C10_FileReleased ==
    /\ fileOpen => pc \in {"header", "loop", "exit", "unwind"}
    /\ output # <<>> => ~fileOpen

\* the loader has been left by an exception, after a Record was added
C10_Witness ==
    /\ pc = "error"
    /\ raised = "ValueError"
    /\ Len(designs) = 1
    /\ ~fileOpen

=============================================================================
